---- MODULE Spec2Model ----
(***************************************************************************)
(* Model of timing-surface-stats (src/src/main.rs): the nom line parser,   *)
(* the FromIterator fold into Data, mean/median, data_to_stats and the two *)
(* sort-and-print passes of main.                                          *)
(*                                                                         *)
(* Text is a sequence of one-character strings.  An f32 is a record        *)
(* [k, n, d]: k = "fin" is the rational n/d in lowest terms (d > 0),       *)
(* k = "nan" is NaN, k = "inf" is the infinity of sign n.  Rounding to 24  *)
(* bits and the sign of zero are not modelled: sums and quotients are the  *)
(* exact rationals (the sums of the small inputs used are exact in f32).   *)
(***************************************************************************)
EXTENDS Integers, Sequences, FiniteSets, TLC

VARIABLES
    input,    \* the lines of ../all_runs.output, each a text
    pc,       \* position of main
    fault,    \* why main stopped early: "none", "io", "parse", "median", "sort"
    lines,    \* Vec<Line> collected so far
    cursor,   \* number of Lines from_iter has folded
    data,     \* Data: (population_size, num_generations) -> Result
    iter,     \* keys data_to_stats' consuming iterator has not yet yielded
    stats,    \* Stats: key -> Stat
    pairs,    \* the Vec of (key, stat) main sorts and prints, as keys
    out,      \* stdout, one record per println!
    text,     \* parser specification: the line handed to parse_line
    parsed,   \* parser specification: what parse_line returned
    arg,      \* median specification: the slice as passed
    vals,     \* median specification: the slice after the call
    ret       \* median specification: the value returned, or the panic

vars == <<input, pc, fault, lines, cursor, data, iter, stats, pairs, out,
          text, parsed, arg, vals, ret>>

pipelineVars == <<input, pc, fault, lines, cursor, data, iter, stats, pairs, out>>
parserVars == <<text, parsed>>
medianVars == <<arg, vals, ret>>

(***************************************************************************)
(* Bounds of the model.                                                    *)
(***************************************************************************)
MaxLines == 4     \* lines in the input file
MaxVals == 4      \* length of a slice given to median
MaxVal == 4       \* largest run time in a slice given to median

(***************************************************************************)
(* f32                                                                     *)
(***************************************************************************)
Abs(x) == IF x < 0 THEN -x ELSE x

Sign(x) == IF x < 0 THEN -1 ELSE 1

RECURSIVE GCD(_, _)
GCD(a, b) == IF b = 0 THEN a ELSE GCD(b, a % b)

NaN == [k |-> "nan", n |-> 0, d |-> 1]

Inf(s) == [k |-> "inf", n |-> s, d |-> 1]

Fin(n, d) ==
    LET s == IF d < 0 THEN -1 ELSE 1
        g == GCD(Abs(n), Abs(d))
    IN  [k |-> "fin", n |-> (s * n) \div g, d |-> (s * d) \div g]

Zero == Fin(0, 1)

IsNaN(a) == a.k = "nan"

IsFinite(a) == a.k = "fin"

\* a + b on f32
FAdd(a, b) ==
    IF IsNaN(a) \/ IsNaN(b) THEN NaN
    ELSE IF a.k = "inf" /\ b.k = "inf" THEN (IF a.n = b.n THEN a ELSE NaN)
    ELSE IF a.k = "inf" THEN a
    ELSE IF b.k = "inf" THEN b
    ELSE Fin(a.n * b.d + b.n * a.d, a.d * b.d)

\* a / b on f32
FDiv(a, b) ==
    IF IsNaN(a) \/ IsNaN(b) THEN NaN
    ELSE IF a.k = "inf" /\ b.k = "inf" THEN NaN
    ELSE IF a.k = "inf" THEN Inf(a.n * Sign(b.n))
    ELSE IF b.k = "inf" THEN Zero
    ELSE IF b.n = 0 THEN (IF a.n = 0 THEN NaN ELSE Inf(Sign(a.n)))
    ELSE Fin(a.n * b.d, a.d * b.n)

\* a < b on f32 values that are not NaN
FLess(a, b) ==
    IF a.k = "inf" THEN a.n < 0 /\ ~(b.k = "inf" /\ b.n < 0)
    ELSE IF b.k = "inf" THEN b.n > 0
    ELSE a.n * b.d < b.n * a.d

\* f32::partial_cmp
partial_cmp(a, b) ==
    IF IsNaN(a) \/ IsNaN(b) THEN "None"
    ELSE IF FLess(a, b) THEN "Less"
    ELSE IF FLess(b, a) THEN "Greater"
    ELSE "Equal"

\* usize as f32
AsF32(n) == Fin(n, 1)

(***************************************************************************)
(* Text and the nom combinators.  A parser returns [ok, rest, val]; on     *)
(* failure rest is the input it was given.                                 *)
(***************************************************************************)
Digits == {"0", "1", "2", "3", "4", "5", "6", "7", "8", "9"}

DigitVal(c) ==
    CASE c = "0" -> 0 [] c = "1" -> 1 [] c = "2" -> 2 [] c = "3" -> 3
      [] c = "4" -> 4 [] c = "5" -> 5 [] c = "6" -> 6 [] c = "7" -> 7
      [] c = "8" -> 8 [] c = "9" -> 9

Drop(s, n) == SubSeq(s, n + 1, Len(s))

Take(s, n) == SubSeq(s, 1, n)

Ok(rest, val) == [ok |-> TRUE, rest |-> rest, val |-> val]

Err(s) == [ok |-> FALSE, rest |-> s, val |-> 0]

\* length of the longest prefix of s made of characters of set C
PrefixLen(s, C) ==
    CHOOSE n \in 0..Len(s) :
        /\ \A i \in 1..n : s[i] \in C
        /\ (n < Len(s) => s[n + 1] \notin C)

RECURSIVE DecimalValue(_)
DecimalValue(ds) ==
    IF ds = <<>> THEN 0
    ELSE 10 * DecimalValue(Take(ds, Len(ds) - 1)) + DigitVal(ds[Len(ds)])

RECURSIVE Pow10(_)
Pow10(n) == IF n = 0 THEN 1 ELSE 10 * Pow10(n - 1)

\* nom::bytes::complete::tag
tag(t, s) ==
    IF Len(s) >= Len(t) /\ Take(s, Len(t)) = t THEN Ok(Drop(s, Len(t)), t) ELSE Err(s)

\* nom::character::complete::char
char(c, s) == tag(<<c>>, s)

\* nom::character::complete::u32: one or more decimal digits.  The inputs of
\* the model have at most a few digits, so the overflow failure never arises.
u32(s) ==
    LET n == PrefixLen(s, Digits)
    IN  IF n = 0 THEN Err(s) ELSE Ok(Drop(s, n), DecimalValue(Take(s, n)))

\* nom::character::complete::space0: zero or more spaces or tabs
space0(s) ==
    LET n == PrefixLen(s, {" "}) IN Ok(Drop(s, n), Take(s, n))

\* nom::number::complete::float: [sign] (digits ['.' [digits]] | '.' digits),
\* else the literals nan and inf.  The exponent part and the upper-case
\* spellings of nan and inf are left out: no input of the model has them.
float(s) ==
    LET signed == s # <<>> /\ s[1] \in {"+", "-"}
        sgn == IF signed /\ s[1] = "-" THEN -1 ELSE 1
        m == IF signed THEN Drop(s, 1) ELSE s
        ni == PrefixLen(m, Digits)
        afterInt == Drop(m, ni)
        dot == afterInt # <<>> /\ afterInt[1] = "."
        nf == IF dot THEN PrefixLen(Drop(afterInt, 1), Digits) ELSE 0
        used == IF dot /\ (ni > 0 \/ nf > 0) THEN ni + 1 + nf ELSE ni
        mant == Take(m, ni) \o (IF dot THEN SubSeq(m, ni + 2, ni + 1 + nf) ELSE <<>>)
    IN  IF ni > 0 \/ (dot /\ nf > 0)
            THEN Ok(Drop(m, used), Fin(sgn * DecimalValue(mant), Pow10(nf)))
        ELSE IF tag(<<"n", "a", "n">>, s).ok
            THEN Ok(Drop(s, 3), NaN)
        ELSE IF tag(<<"i", "n", "f">>, s).ok
            THEN Ok(Drop(s, 3), Inf(1))
        ELSE Err(s)

PS_ == <<"P", "S", "_">>
NG_ == <<"/", "N", "G", "_">>
RUN_ == <<"/", "r", "u", "n", "_">>
OUTPUT == <<".", "o", "u", "t", "p", "u", "t">>
SUCCESS == <<"S", "U", "C", "C", "E", "S", "S">>

\* preceded(first, second): the value of second
pop_size(s) ==
    LET a == tag(PS_, s) IN
    IF ~a.ok THEN Err(s)
    ELSE LET b == u32(a.rest) IN IF b.ok THEN b ELSE Err(s)

num_gens(s) ==
    LET a == tag(NG_, s) IN
    IF ~a.ok THEN Err(s)
    ELSE LET b == u32(a.rest) IN IF b.ok THEN b ELSE Err(s)

run_num(s) ==
    LET a == tag(RUN_, s) IN
    IF ~a.ok THEN Err(s)
    ELSE LET b == u32(a.rest) IN
         IF ~b.ok THEN Err(s)
         ELSE LET c == tag(OUTPUT, b.rest) IN
              IF c.ok THEN Ok(c.rest, b.val) ELSE Err(s)

path(s) ==
    LET a == pop_size(s) IN
    IF ~a.ok THEN Err(s)
    ELSE LET b == num_gens(a.rest) IN
         IF ~b.ok THEN Err(s)
         ELSE LET c == run_num(b.rest) IN
              IF c.ok THEN Ok(c.rest, <<a.val, b.val, c.val>>) ELSE Err(s)

EntrySuccess == [tag |-> "Success", value |-> Zero]

EntryRunTime(v) == [tag |-> "RunTime", value |-> v]

success(s) ==
    LET a == tag(SUCCESS, s) IN IF a.ok THEN Ok(a.rest, EntrySuccess) ELSE Err(s)

run_time(s) ==
    LET a == float(space0(s).rest) IN
    IF a.ok THEN Ok(a.rest, EntryRunTime(a.val)) ELSE Err(s)

\* alt((success, run_time)): the first alternative that succeeds
entry(s) ==
    LET a == success(s) IN IF a.ok THEN a ELSE run_time(s)

\* separated_pair(path, char(':'), entry) mapped to a Line
line(s) ==
    LET a == path(s) IN
    IF ~a.ok THEN Err(s)
    ELSE LET b == char(":", a.rest) IN
         IF ~b.ok THEN Err(s)
         ELSE LET c == entry(b.rest) IN
              IF ~c.ok THEN Err(s)
              ELSE Ok(c.rest, [population_size |-> a.val[1],
                               num_generations |-> a.val[2],
                               run_number |-> a.val[3],
                               entry |-> c.val])

\* parse_line keeps the Line and discards what line left unconsumed
parse_line(s) ==
    LET r == line(s) IN
    IF r.ok THEN [ok |-> TRUE, val |-> r.val] ELSE [ok |-> FALSE, val |-> 0]

(***************************************************************************)
(* Aggregator: impl FromIterator<&Line> for Data                           *)
(***************************************************************************)
DefaultResult == [num_runs |-> 0, num_successes |-> 0, run_times |-> <<>>]

EmptyMap == [k \in {} |-> DefaultResult]

KeyOf(l) == <<l.population_size, l.num_generations>>

\* data.entry(key).or_default()
OrDefault(d, key) == IF key \in DOMAIN d THEN d ELSE d @@ (key :> DefaultResult)

\* Accumulate with a run time dropped when the Result already holds it
AccumulateDedup(result, l) ==
    IF l.entry.tag = "Success"
        THEN [result EXCEPT !.num_successes = @ + 1]
        ELSE IF \E i \in 1..Len(result.run_times) : result.run_times[i] = l.entry.value
            THEN result
            ELSE [result EXCEPT !.num_runs = @ + 1,
                                !.run_times = Append(@, l.entry.value)]

\* Accumulate with num_runs counting every Line, Success included
AccumulateCountsEveryLine(result, l) ==
    IF l.entry.tag = "Success"
        THEN [result EXCEPT !.num_successes = @ + 1, !.num_runs = @ + 1]
        ELSE [result EXCEPT !.num_runs = @ + 1,
                            !.run_times = Append(@, l.entry.value)]

\* the match on line.entry, applied to the key's Result
Accumulate(result, l) ==
    IF l.entry.tag = "Success"
        THEN [result EXCEPT !.num_successes = @ + 1]
        ELSE [result EXCEPT !.num_runs = @ + 1,
                            !.run_times = Append(@, l.entry.value)]

\* one iteration of the for loop of from_iter
FoldLine(d, l) ==
    LET key == KeyOf(l)
        e == OrDefault(d, key)
    IN  [e EXCEPT ![key] = Accumulate(e[key], l)]

\* from_iter over a whole sequence of Lines
RECURSIVE from_iter(_)
from_iter(ls) ==
    IF ls = <<>> THEN EmptyMap
    ELSE FoldLine(from_iter(Take(ls, Len(ls) - 1)), ls[Len(ls)])

(***************************************************************************)
(* Statistics: mean, median, data_to_stats                                 *)
(***************************************************************************)
\* slice insertion sort on records with an f32 field m, ascending; x goes
\* after the elements that are not greater (what sort_unstable_by does on
\* the short slices of the model: the order of equal elements depends on
\* the order of the input and on nothing else)
RECURSIVE InsertTail(_, _)
InsertTail(s, x) ==
    IF s = <<>> THEN <<x>>
    ELSE IF partial_cmp(x.m, s[Len(s)].m) = "Less"
        THEN Append(InsertTail(Take(s, Len(s) - 1), x), s[Len(s)])
        ELSE Append(s, x)

RECURSIVE InsertionSort(_)
InsertionSort(s) ==
    IF s = <<>> THEN <<>>
    ELSE InsertTail(InsertionSort(Take(s, Len(s) - 1)), s[Len(s)])

\* sort_unstable_by(|a, b| a.m.partial_cmp(b.m).unwrap()): every element of
\* a slice of two or more is compared at least once, so a NaN makes unwrap
\* panic; a slice of fewer than two is never compared
sort_unstable_by(s) ==
    IF Len(s) >= 2 /\ \E i \in 1..Len(s) : IsNaN(s[i].m)
        THEN [panic |-> TRUE, sorted |-> s]
        ELSE [panic |-> FALSE, sorted |-> InsertionSort(s)]

Keyed(vs) == [i \in 1..Len(vs) |-> [m |-> vs[i]]]

Unkeyed(rs) == [i \in 1..Len(rs) |-> rs[i].m]

\* median without the even-length average: always the element at len / 2
medianUpperMiddle(vs) ==
    LET s == sort_unstable_by(Keyed(vs))
        sorted == Unkeyed(s.sorted)
        n == Len(vs)
    IN  IF s.panic \/ n = 0 THEN [panic |-> TRUE, val |-> NaN, vals |-> vs]
        ELSE [panic |-> FALSE, val |-> sorted[(n \div 2) + 1], vals |-> sorted]

\* median(vals: &mut [f32]): sorts vals in place, then indexes.  On the empty
\* slice len / 2 - 1 underflows usize: a panic in a debug build, and in a
\* release build the wrapped index is out of bounds, a panic as well.
median(vs) ==
    LET s == sort_unstable_by(Keyed(vs))
        sorted == Unkeyed(s.sorted)
        n == Len(vs)
    IN  IF s.panic THEN [panic |-> TRUE, val |-> NaN, vals |-> vs]
        ELSE IF n % 2 = 1
            THEN [panic |-> FALSE, val |-> sorted[(n \div 2) + 1], vals |-> sorted]
        ELSE IF n = 0
            THEN [panic |-> TRUE, val |-> NaN, vals |-> sorted]
        ELSE [panic |-> FALSE,
              val |-> FDiv(FAdd(sorted[n \div 2], sorted[(n \div 2) + 1]), AsF32(2)),
              vals |-> sorted]

RECURSIVE Sum(_)
Sum(vs) == IF vs = <<>> THEN Zero ELSE FAdd(Sum(Take(vs, Len(vs) - 1)), vs[Len(vs)])

\* mean(vals: &[f32])
mean(vs) == FDiv(Sum(vs), AsF32(Len(vs)))

\* insert that leaves out a Stat whose successes_per_mean is NaN
InsertUnlessNaN(m, key, v) ==
    IF IsNaN(v.successes_per_mean) THEN m
    ELSE [x \in DOMAIN m \cup {key} |-> IF x = key THEN v ELSE m[x]]

\* HashMap::insert
Insert(m, key, v) == [x \in DOMAIN m \cup {key} |-> IF x = key THEN v ELSE m[x]]

\* the Stat literal of data_to_stats
MakeStat(result, mean_run_time, median_run_time) ==
    [result |-> result,
     mean_run_time |-> mean_run_time,
     median_run_time |-> median_run_time,
     successes_per_mean |-> FDiv(AsF32(result.num_successes), mean_run_time),
     successes_per_median |-> FDiv(AsF32(result.num_successes), median_run_time)]

\* the loop body with median sorting result.run_times itself, not a clone
StatOfSortsInPlace(result) ==
    LET mean_run_time == mean(result.run_times)
        med == median(result.run_times)
    IN  [panic |-> med.panic,
         stat |-> MakeStat([result EXCEPT !.run_times = med.vals], mean_run_time, med.val)]

\* the body of the for loop of data_to_stats: [panic, stat]
StatOf(result) ==
    LET run_times == result.run_times
        mean_run_time == mean(run_times)
        med == median(run_times)
    IN  [panic |-> med.panic,
         stat |-> MakeStat(result, mean_run_time, med.val)]

(***************************************************************************)
(* Ranked reporter: the two sort-and-print passes of main                  *)
(***************************************************************************)
Println(kind, key, value) == [kind |-> kind, key |-> key, value |-> value]

NoKey == <<0, 0>>

\* pairs as records carrying the metric the comparator reads
ByMean(st, ps) == [i \in 1..Len(ps) |-> [key |-> ps[i], m |-> st[ps[i]].successes_per_mean]]

ByMedian(st, ps) == [i \in 1..Len(ps) |-> [key |-> ps[i], m |-> st[ps[i]].successes_per_median]]

KeysOf(rs) == [i \in 1..Len(rs) |-> rs[i].key]

Rows(kind, rs) == [i \in 1..Len(rs) |-> Println(kind, rs[i].key, rs[i].m)]

\* println!(); println!(header); then one row per pair
TableLines(kind, rs) ==
    <<Println("blank", NoKey, Zero), Println(kind \o "_header", NoKey, Zero)>>
        \o Rows(kind \o "_row", rs)

\* the sequences that list every element of set S exactly once
Orders(S) ==
    {f \in [1..Cardinality(S) -> S] : \A i, j \in 1..Cardinality(S) : i # j => f[i] # f[j]}

(***************************************************************************)
(* The input file: up to MaxLines lines over two configurations, each line *)
(* a SUCCESS marker, a run time of 0 or 1, or the malformed outcome MAYBE. *)
(***************************************************************************)
PathText(ps, ng, run) == PS_ \o ps \o NG_ \o ng \o RUN_ \o run \o OUTPUT

LineText(ps, ng, run, outcome) == PathText(ps, ng, run) \o <<":">> \o outcome

MAYBE == <<"M", "A", "Y", "B", "E">>

FileLines ==
    {LineText(ps, <<"1">>, <<"0">>, o) :
        ps \in {<<"1">>, <<"2">>}, o \in {SUCCESS, <<" ", "0">>, <<" ", "1">>}}
    \cup {LineText(<<"1">>, <<"1">>, <<"1">>, MAYBE)}

Files == UNION {[1..n -> FileLines] : n \in 0..MaxLines}

NotParsed == [done |-> FALSE, ok |-> FALSE, val |-> 0]

NotCalled == [called |-> FALSE, panic |-> FALSE, val |-> NaN]

Init ==
    /\ input \in Files
    /\ pc = "read"
    /\ fault = "none"
    /\ lines = <<>>
    /\ cursor = 0
    /\ data = EmptyMap
    /\ iter = {}
    /\ stats = EmptyMap
    /\ pairs = <<>>
    /\ out = <<>>
    /\ text = <<>>
    /\ parsed = NotParsed
    /\ arg = <<>>
    /\ vals = <<>>
    /\ ret = NotCalled

(***************************************************************************)
(* main                                                                    *)
(***************************************************************************)
\* fs::read_to_string(path).with_context(..)?
ReadFile ==
    /\ pc = "read"
    /\ \/ pc' = "parse" /\ fault' = fault
       \/ pc' = "failed" /\ fault' = "io"
    /\ UNCHANGED <<input, lines, cursor, data, iter, stats, pairs, out>>
    /\ UNCHANGED <<parserVars, medianVars>>

\* ParseNext with a malformed line ending the collection quietly: main goes
\* on with the Lines parsed so far
ParseNextKeepsPrefix ==
    /\ pc = "parse"
    /\ Len(lines) < Len(input)
    /\ LET r == parse_line(input[Len(lines) + 1]) IN
       IF r.ok
           THEN lines' = Append(lines, r.val) /\ pc' = pc /\ fault' = fault
           ELSE lines' = lines /\ pc' = "aggregate" /\ fault' = fault
    /\ UNCHANGED <<input, cursor, data, iter, stats, pairs, out>>
    /\ UNCHANGED <<parserVars, medianVars>>

\* one item of .lines().map(parse_line).collect::<anyhow::Result<Vec<_>>>()?:
\* the first Err ends the collection and main returns it
ParseNext ==
    /\ pc = "parse"
    /\ Len(lines) < Len(input)
    /\ LET r == parse_line(input[Len(lines) + 1]) IN
       IF r.ok
           THEN lines' = Append(lines, r.val) /\ pc' = pc /\ fault' = fault
           ELSE lines' = lines /\ pc' = "failed" /\ fault' = "parse"
    /\ UNCHANGED <<input, cursor, data, iter, stats, pairs, out>>
    /\ UNCHANGED <<parserVars, medianVars>>

\* every line parsed: lines is bound and lines.iter().collect() starts
ParseDone ==
    /\ pc = "parse"
    /\ Len(lines) = Len(input)
    /\ pc' = "aggregate"
    /\ UNCHANGED <<input, fault, lines, cursor, data, iter, stats, pairs, out>>
    /\ UNCHANGED <<parserVars, medianVars>>

\* one iteration of the for loop of from_iter
FoldNext ==
    /\ pc = "aggregate"
    /\ cursor < Len(lines)
    /\ data' = FoldLine(data, lines[cursor + 1])
    /\ cursor' = cursor + 1
    /\ UNCHANGED <<input, pc, fault, lines, iter, stats, pairs, out>>
    /\ UNCHANGED <<parserVars, medianVars>>

\* from_iter returns; data_to_stats(data) starts iterating the map
FoldDone ==
    /\ pc = "aggregate"
    /\ cursor = Len(lines)
    /\ pc' = "stats"
    /\ iter' = DOMAIN data
    /\ UNCHANGED <<input, fault, lines, cursor, data, stats, pairs, out>>
    /\ UNCHANGED <<parserVars, medianVars>>

\* one iteration of the for loop of data_to_stats; the HashMap yields its
\* entries in an order of its own
StatsNext ==
    /\ pc = "stats"
    /\ \E key \in iter :
          LET s == StatOf(data[key]) IN
          IF s.panic
              THEN /\ pc' = "failed" /\ fault' = "median"
                   /\ UNCHANGED <<stats, iter>>
              ELSE /\ stats' = Insert(stats, key, s.stat)
                   /\ iter' = iter \ {key}
                   /\ UNCHANGED <<pc, fault>>
    /\ UNCHANGED <<input, lines, cursor, data, pairs, out>>
    /\ UNCHANGED <<parserVars, medianVars>>

\* data_to_stats returns; println!("{stats:?}")
DumpStats ==
    /\ pc = "stats"
    /\ iter = {}
    /\ out' = Append(out, Println("debug", NoKey, Zero))
    /\ pc' = "table1"
    /\ UNCHANGED <<input, fault, lines, cursor, data, iter, stats, pairs>>
    /\ UNCHANGED <<parserVars, medianVars>>

\* the first table: blank line and header, stats.iter().collect() in the
\* HashMap's order, the sort on successes_per_mean, the rows
Table1 ==
    /\ pc = "table1"
    /\ \E order \in Orders(DOMAIN stats) :
          LET s == sort_unstable_by(ByMean(stats, order)) IN
          IF s.panic
              THEN /\ out' = out \o TableLines("mean", <<>>)
                   /\ pairs' = order
                   /\ pc' = "failed" /\ fault' = "sort"
              ELSE /\ out' = out \o TableLines("mean", s.sorted)
                   /\ pairs' = KeysOf(s.sorted)
                   /\ pc' = "table2" /\ fault' = fault
    /\ UNCHANGED <<input, lines, cursor, data, iter, stats>>
    /\ UNCHANGED <<parserVars, medianVars>>

\* the second table: blank line and header, the sort of the same Vec on
\* successes_per_median, the rows; then Ok(())
Table2 ==
    /\ pc = "table2"
    /\ LET s == sort_unstable_by(ByMedian(stats, pairs)) IN
       IF s.panic
           THEN /\ out' = out \o TableLines("median", <<>>)
                /\ pairs' = pairs
                /\ pc' = "failed" /\ fault' = "sort"
           ELSE /\ out' = out \o TableLines("median", s.sorted)
                /\ pairs' = KeysOf(s.sorted)
                /\ pc' = "done" /\ fault' = fault
    /\ UNCHANGED <<input, lines, cursor, data, iter, stats>>
    /\ UNCHANGED <<parserVars, medianVars>>

Next ==
    \/ ReadFile
    \/ ParseNext
    \/ ParseDone
    \/ FoldNext
    \/ FoldDone
    \/ StatsNext
    \/ DumpStats
    \/ Table1
    \/ Table2

Spec == Init /\ [][Next]_vars

(***************************************************************************)
(* parse_line on its own: one call on one line.  The lines are built from  *)
(* well-formed and malformed paths, the ':' separator or none, and outcome *)
(* segments.                                                               *)
(***************************************************************************)
PathTexts ==
    {PathText(<<"1", "0">>, <<"2", "0">>, <<"0">>),
     PathText(<<"5">>, <<"1", "0", "0">>, <<"3">>),
     PathText(<<>>, <<"2", "0">>, <<"0">>),
     PathText(<<"1", "0">>, <<"x">>, <<"0">>),
     NG_ \o <<"2", "0">> \o <<"/">> \o PS_ \o <<"1", "0">> \o RUN_ \o <<"0">> \o OUTPUT,
     PS_ \o <<"1", "0">> \o NG_ \o <<"2", "0">> \o RUN_ \o <<"0">>,
     <<"p", "s", "_">> \o <<"1", "0">> \o NG_ \o <<"2", "0">> \o RUN_ \o <<"0">> \o OUTPUT}

SeparatorTexts == {<<":">>, <<>>, <<" ", ":">>}

OutcomeTexts ==
    {SUCCESS,
     SUCCESS \o <<"1", "2", "3">>,
     SUCCESS \o <<" ">>,
     <<" ">> \o SUCCESS,
     <<"S", "U", "C", "C", "E", "S">>,
     <<"s", "u", "c", "c", "e", "s", "s">>,
     MAYBE,
     <<>>,
     <<" ">>,
     <<" ", "3", ".", "5">>,
     <<"3", ".", "5">>,
     <<" ", " ", "1", "2">>,
     <<" ", "1", "2", ".", "3", "4">>,
     <<" ", "3", ".", "5", "x">>,
     <<" ", "1", " ", "2">>,
     <<" ", "-", "1">>,
     <<" ", ".", "5">>,
     <<" ", "3", ".">>,
     <<" ", ".">>,
     <<" ", "n", "a", "n">>}

ParserInputs ==
    {p \o sep \o o : p \in PathTexts, sep \in SeparatorTexts, o \in OutcomeTexts}

InitParser ==
    /\ text \in ParserInputs
    /\ parsed = NotParsed
    /\ input = <<>>
    /\ pc = "read"
    /\ fault = "none"
    /\ lines = <<>>
    /\ cursor = 0
    /\ data = EmptyMap
    /\ iter = {}
    /\ stats = EmptyMap
    /\ pairs = <<>>
    /\ out = <<>>
    /\ arg = <<>>
    /\ vals = <<>>
    /\ ret = NotCalled

\* a call of parse_line(text)
ParseLine ==
    /\ ~parsed.done
    /\ LET r == parse_line(text) IN
       parsed' = [done |-> TRUE, ok |-> r.ok, val |-> r.val]
    /\ UNCHANGED <<text, pipelineVars, medianVars>>

NextParser == ParseLine

SpecParser == InitParser /\ [][NextParser]_vars

(***************************************************************************)
(* median on its own: one call on a slice of up to MaxVals values, each    *)
(* 0..MaxVal or NaN.                                                       *)
(***************************************************************************)
SliceValues == {AsF32(v) : v \in 0..MaxVal} \cup {NaN}

Slices == UNION {[1..n -> SliceValues] : n \in 0..MaxVals}

InitMedian ==
    /\ arg \in Slices
    /\ vals = arg
    /\ ret = NotCalled
    /\ text = <<>>
    /\ parsed = NotParsed
    /\ input = <<>>
    /\ pc = "read"
    /\ fault = "none"
    /\ lines = <<>>
    /\ cursor = 0
    /\ data = EmptyMap
    /\ iter = {}
    /\ stats = EmptyMap
    /\ pairs = <<>>
    /\ out = <<>>

\* a call of median(&mut vals)
CallMedian ==
    /\ ~ret.called
    /\ LET r == median(vals) IN
       /\ ret' = [called |-> TRUE, panic |-> r.panic, val |-> r.val]
       /\ vals' = r.vals
    /\ UNCHANGED <<arg, pipelineVars, parserVars>>

NextMedian == CallMedian

SpecMedian == InitMedian /\ [][NextMedian]_vars

(***************************************************************************)
(* Properties                                                              *)
(***************************************************************************)
Malformed(i) == ~parse_line(input[i]).ok

\* the keys whose Result has no run time although from_iter has returned
OnlySuccesses ==
    {k \in DOMAIN data : cursor = Len(lines) /\ pc # "aggregate" /\ data[k].run_times = <<>>}

NonFinite(x) == ~IsFinite(x)

\* C1: an input in which some key receives only Success records runs through
\* aggregation, data_to_stats and both report passes without a fault, and
\* that key's two ratios are non-finite values.
C1_OnlySuccessesNoFault ==
    OnlySuccesses # {} =>
        /\ fault = "none"
        /\ \A k \in OnlySuccesses \cap DOMAIN stats :
              /\ NonFinite(stats[k].successes_per_mean)
              /\ NonFinite(stats[k].successes_per_median)

\* the Lines among the first n of ls that have key k and entry tag t
Count(ls, n, k, t) ==
    Cardinality({i \in 1..n : KeyOf(ls[i]) = k /\ ls[i].entry.tag = t})

Permuted(ls, f) == [i \in 1..Len(ls) |-> ls[f[i]]]

SameCounts(d, e) ==
    /\ DOMAIN d = DOMAIN e
    /\ \A k \in DOMAIN d :
          /\ d[k].num_runs = e[k].num_runs
          /\ d[k].num_successes = e[k].num_successes

\* C2: after any number of folded Lines, num_runs of a key is the number of
\* RunTime Lines folded with that key and num_successes the number of
\* Success Lines, repeated identical lines included; and once the fold is
\* complete, folding any permutation of the Lines gives the same counts.
C2_CountsMatchRecords ==
    /\ DOMAIN data = {KeyOf(lines[i]) : i \in 1..cursor}
    /\ \A k \in DOMAIN data :
          /\ data[k].num_runs = Count(lines, cursor, k, "RunTime")
          /\ data[k].num_successes = Count(lines, cursor, k, "Success")
    /\ (pc = "aggregate" /\ cursor = Len(lines)) =>
          \A f \in Orders(1..Len(lines)) : SameCounts(from_iter(Permuted(lines, f)), data)

C2_Witness ==
    /\ pc = "stats"
    /\ cursor = Len(lines)
    /\ \E i, j \in 1..Len(lines) : i < j /\ lines[i] = lines[j]
    /\ \E k \in DOMAIN data : data[k].num_runs = 2 /\ data[k].num_successes = 1

\* C3: when some line of the input fails to parse, that line is never
\* collected, the Aggregator, data_to_stats and the reporter never run, and
\* nothing is printed, even when earlier lines are valid.
C3_ParseFailureReportsNothing ==
    \A i \in 1..Len(input) :
        Malformed(i) =>
            /\ Len(lines) < i
            /\ pc \in {"read", "parse", "failed"}
            /\ cursor = 0
            /\ data = EmptyMap
            /\ stats = EmptyMap
            /\ out = <<>>

C3_Witness ==
    /\ pc = "failed"
    /\ fault = "parse"
    /\ Len(lines) >= 2
    /\ Len(input) > Len(lines) + 1

HasColon(s) == \E i \in 1..Len(s) : s[i] = ":"

\* what follows the first ':' of s
OutcomeSegment(s) ==
    Drop(s, CHOOSE i \in 1..Len(s) : s[i] = ":" /\ \A j \in 1..(i - 1) : s[j] # ":")

\* the whole of o is the literal SUCCESS, or optional spaces and a float
ExactOutcome(o) ==
    \/ o = SUCCESS
    \/ LET f == float(space0(o).rest) IN f.ok /\ f.rest = <<>>

\* C4: parse_line rejects every line whose outcome segment after the ':' is
\* neither exactly SUCCESS nor a float after optional spaces, SUCCESS123
\* included.
C4_InexactOutcomeRejected ==
    (parsed.done /\ HasColon(text) /\ ~ExactOutcome(OutcomeSegment(text))) => ~parsed.ok

\* data_to_stats has returned
StatsReturned == pc \in {"table1", "table2", "done"} \/ (pc = "failed" /\ fault = "sort")

\* C5: whenever data_to_stats returns, the key set of Stats is the key set
\* of the Data it was given; while it runs Stats holds no other key.
C5_StatsKeysEqualDataKeys ==
    /\ DOMAIN stats \subseteq DOMAIN data
    /\ StatsReturned => DOMAIN stats = DOMAIN data

C5_Witness ==
    /\ pc = "table1"
    /\ Cardinality(DOMAIN stats) = 2
    /\ \E k \in DOMAIN stats : IsNaN(stats[k].successes_per_mean)

RowsOf(kind) == SelectSeq(out, LAMBDA r : r.kind = kind)

\* the rows of a table list every key of stats once, ascending in the metric
FullAscendingTable(rs) ==
    /\ Len(rs) = Cardinality(DOMAIN stats)
    /\ {rs[i].key : i \in 1..Len(rs)} = DOMAIN stats
    /\ \A i \in 1..(Len(rs) - 1) : partial_cmp(rs[i].value, rs[i + 1].value) \in {"Less", "Equal"}

\* C6: every Stats handed to the reporter, one with a NaN metric included,
\* gets both tables, each listing every key once in ascending order.
C6_BothTablesListEveryKey ==
    /\ fault # "sort"
    /\ pc = "done" =>
          /\ FullAscendingTable(RowsOf("mean_row"))
          /\ FullAscendingTable(RowsOf("median_row"))

\* what main prints after the dump when stats.iter() yields the keys in order
TablesFor(st, order) ==
    LET a == sort_unstable_by(ByMean(st, order))
        b == sort_unstable_by(ByMedian(st, KeysOf(a.sorted)))
    IN  TableLines("mean", a.sorted) \o TableLines("median", b.sorted)

\* C7: the printed row order of both tables is a function of the input: a
\* run that completes prints what every other run on the same input prints,
\* whatever order the map iterates in.
C7_RowOrderDeterministic ==
    pc = "done" =>
        \A order \in Orders(DOMAIN stats) :
            out = <<Println("debug", NoKey, Zero)>> \o TablesFor(stats, order)

NaNFree(vs) == \A i \in 1..Len(vs) : ~IsNaN(vs[i])

Ascending(vs) ==
    \A i \in 1..(Len(vs) - 1) : partial_cmp(vs[i], vs[i + 1]) \in {"Less", "Equal"}

\* the value the median of an ascending sequence s should be
MiddleOf(s) ==
    LET n == Len(s) IN
    IF n % 2 = 1 THEN s[(n \div 2) + 1]
    ELSE FDiv(FAdd(s[n \div 2], s[(n \div 2) + 1]), AsF32(2))

\* C8: on a non-empty NaN-free slice median returns, and with s the slice
\* sorted ascending the value is s[n/2] for odd n and (s[n/2 - 1] + s[n/2]) / 2
\* for even n (0-based), whatever the order of the elements passed; the
\* median of 1,2,3 is 2 and of 1,2,3,4 is 2.5.
C8_MedianIsMiddleOfSorted ==
    (ret.called /\ arg # <<>> /\ NaNFree(arg)) =>
        /\ ~ret.panic
        /\ \A f \in Orders(1..Len(arg)) :
              /\ Ascending(Permuted(arg, f)) => ret.val = MiddleOf(Permuted(arg, f))
              /\ median(Permuted(arg, f)).val = ret.val
        /\ arg = <<AsF32(1), AsF32(2), AsF32(3)>> => ret.val = AsF32(2)
        /\ arg = <<AsF32(1), AsF32(2), AsF32(3), AsF32(4)>> => ret.val = Fin(5, 2)

C8_Witness ==
    /\ ret.called
    /\ ~ret.panic
    /\ arg = <<AsF32(4), AsF32(1), AsF32(3), AsF32(2)>>
    /\ ret.val = Fin(5, 2)

\* C9: the Result embedded in each Stat is the Result Data held for the key:
\* same num_runs, same num_successes, same run_times in insertion order; the
\* sort of the median does not reach it.
C9_ResultEmbeddedUnchanged ==
    \A k \in DOMAIN stats : stats[k].result = data[k]

C9_Witness ==
    \E k \in DOMAIN stats :
        /\ stats[k].result.run_times = <<AsF32(1), AsF32(0)>>
        /\ stats[k].median_run_time = Fin(1, 2)

RunsMatchTimes == \A k \in DOMAIN data : data[k].num_runs = Len(data[k].run_times)

\* what one folded Line may change
FoldFrame ==
    cursor' = cursor + 1 =>
        LET l == lines[cursor + 1]
            key == KeyOf(l)
            before == IF key \in DOMAIN data THEN data[key] ELSE DefaultResult
            after == data'[key]
        IN  /\ DOMAIN data' = DOMAIN data \cup {key}
            /\ \A k \in DOMAIN data \ {key} : data'[k] = data[k]
            /\ IF l.entry.tag = "Success"
                   THEN /\ after.num_successes = before.num_successes + 1
                        /\ after.num_runs = before.num_runs
                        /\ after.run_times = before.run_times
                   ELSE /\ after.num_successes = before.num_successes
                        /\ after.num_runs = before.num_runs + 1
                        /\ after.run_times = Append(before.run_times, l.entry.value)

\* C10: after every folded prefix each Result has num_runs = length of
\* run_times; a Success Line changes only num_successes of its own key, a
\* RunTime Line leaves num_successes alone, and no Line changes the Result
\* of another key.
C10_AccumulationInvariant == []RunsMatchTimes /\ [][FoldFrame]_vars

C10_Witness ==
    /\ cursor >= 3
    /\ Cardinality(DOMAIN data) = 2
    /\ \E k \in DOMAIN data : data[k].num_successes >= 1 /\ data[k].num_runs >= 1

====
